---------------------------- MODULE Spec2Model ----------------------------
(***************************************************************************)
(* A model of src/src/xml.js: the XML parser class (tag scanner, node      *)
(* classifier, attribute parser, tree builder, error reporter), the        *)
(* composer compose_xml and the entity codec.                              *)
(*                                                                         *)
(* Strings are sequences of one-character strings.  A JavaScript value of  *)
(* the tree is a record [kind, val]:                                       *)
(*   kind = "str"  : val is the string's characters                        *)
(*   kind = "hash" : val is the object's entries [k, v] in key order       *)
(*   kind = "arr"  : val is the array's members                            *)
(***************************************************************************)
EXTENDS Integers, Sequences, FiniteSets, TLC

VARIABLES
    parsers,    \* the XML parser objects, by id
    lastIndex,  \* XML.prototype.patTag.lastIndex: one cursor for all objects
    results,    \* the outcome of each parse_xml call, by parser id
    subject,    \* the tree object handed to compose_xml, before and after
    xml,        \* the text compose_xml returned
    codec,      \* the entity codec's input and outputs
    pc          \* the position of the calling program

vars == <<parsers, lastIndex, results, subject, xml, codec, pc>>

----------------------------------------------------------------------------
(* Characters and character classes of the regular expressions.            *)

Null == <<>>

UpperChars ==
    <<"A","B","C","D","E","F","G","H","I","J","K","L","M",
      "N","O","P","Q","R","S","T","U","V","W","X","Y","Z">>

LowerChars ==
    <<"a","b","c","d","e","f","g","h","i","j","k","l","m",
      "n","o","p","q","r","s","t","u","v","w","x","y","z">>

DigitChars == <<"0","1","2","3","4","5","6","7","8","9">>

Range(s) == {s[i] : i \in 1..Len(s)}

\* \w
WordChars == Range(UpperChars) \cup Range(LowerChars) \cup Range(DigitChars) \cup {"_"}

\* [\w\-\:\.]
NameChars == WordChars \cup {"-", ":", "."}

\* [\w\-\:]
PINameChars == WordChars \cup {"-", ":"}

\* \s
SpaceChars == {" ", "\t", "\n", "\r", "\f"}

\* the characters "." does not match
LineTerminators == {"\n", "\r"}

\* The characters in the order of their code units, as Array.prototype.sort
\* and String comparison order them.
CodeOrder ==
    <<"\t", "\n", "\f", "\r", " ", "!", "\"", "#", "$", "%", "&", "'",
      "+", ",", "-", ".", "/">> \o DigitChars \o
    <<":", ";", "<", "=", ">", "?", "@">> \o UpperChars \o
    <<"[", "]", "^", "_">> \o LowerChars \o <<"{", "|", "}", "~">>

CharCode == [c \in Range(CodeOrder) |-> CHOOSE i \in 1..Len(CodeOrder) : CodeOrder[i] = c]

\* String.prototype.toLowerCase, one character
LowerChar(c) ==
    IF c \in Range(UpperChars)
    THEN LowerChars[CHOOSE i \in 1..26 : UpperChars[i] = c]
    ELSE c

toLowerCase(s) == [i \in 1..Len(s) |-> LowerChar(s[i])]

----------------------------------------------------------------------------
(* String helpers.                                                         *)

Drop(s, n) == SubSeq(s, n + 1, Len(s))

StartsWithAt(s, i, lit) ==
    /\ i + Len(lit) - 1 <= Len(s)
    /\ SubSeq(s, i, i + Len(lit) - 1) = lit

EndsWith(s, lit) ==
    /\ Len(lit) <= Len(s)
    /\ SubSeq(s, Len(s) - Len(lit) + 1, Len(s)) = lit

\* the first index >= i of s holding a character of set S, or 0
RECURSIVE FirstIn(_, _, _)
FirstIn(s, i, S) ==
    IF i > Len(s) THEN 0
    ELSE IF s[i] \in S THEN i
    ELSE FirstIn(s, i + 1, S)

\* the index after the longest run of characters of S that starts at i
RECURSIVE SkipRun(_, _, _)
SkipRun(s, i, S) ==
    IF i <= Len(s) /\ s[i] \in S THEN SkipRun(s, i + 1, S) ELSE i

\* the number of characters of s in S
RECURSIVE CountIn(_, _)
CountIn(s, S) ==
    IF s = <<>> THEN 0
    ELSE (IF Head(s) \in S THEN 1 ELSE 0) + CountIn(Tail(s), S)

\* String.prototype.replace with a global literal pattern
RECURSIVE ReplaceAll(_, _, _)
ReplaceAll(s, pat, rep) ==
    IF Len(s) < Len(pat) THEN s
    ELSE IF SubSeq(s, 1, Len(pat)) = pat
         THEN rep \o ReplaceAll(Drop(s, Len(pat)), pat, rep)
         ELSE <<Head(s)>> \o ReplaceAll(Tail(s), pat, rep)

RECURSIVE TrimRight(_)
TrimRight(s) ==
    IF s # <<>> /\ s[Len(s)] \in SpaceChars
    THEN TrimRight(SubSeq(s, 1, Len(s) - 1))
    ELSE s

trim(s) == TrimRight(Drop(s, SkipRun(s, 1, SpaceChars) - 1))

----------------------------------------------------------------------------
(* The entity codec.                                                       *)

Amp == <<"&">>
Lt == <<"<">>
Gt == <<">">>
Quot == << "\"" >>
Apos == <<"'">>
AmpEntity == <<"&", "a", "m", "p", ";">>
LtEntity == <<"&", "l", "t", ";">>
GtEntity == <<"&", "g", "t", ";">>
QuotEntity == <<"&", "q", "u", "o", "t", ";">>
AposEntity == <<"&", "a", "p", "o", "s", ";">>

encode_entities(s) ==
    LET a == ReplaceAll(s, Amp, AmpEntity)
        b == ReplaceAll(a, Lt, LtEntity)
    IN  ReplaceAll(b, Gt, GtEntity)

encode_attrib_entities(s) ==
    LET a == ReplaceAll(s, Amp, AmpEntity)
        b == ReplaceAll(a, Lt, LtEntity)
        c == ReplaceAll(b, Gt, GtEntity)
        d == ReplaceAll(c, Quot, QuotEntity)
    IN  ReplaceAll(d, Apos, AposEntity)

\* decode_entities with &amp; replaced first: the order the comments forbid
decode_entities_amp_first(s) ==
    IF "&" \in Range(s)
    THEN LET a == ReplaceAll(s, AmpEntity, Amp)
             b == ReplaceAll(a, LtEntity, Lt)
             c == ReplaceAll(b, GtEntity, Gt)
             d == ReplaceAll(c, QuotEntity, Quot)
         IN  ReplaceAll(d, AposEntity, Apos)
    ELSE s

decode_entities(s) ==
    IF "&" \in Range(s)
    THEN LET a == ReplaceAll(s, LtEntity, Lt)
             b == ReplaceAll(a, GtEntity, Gt)
             c == ReplaceAll(b, QuotEntity, Quot)
             d == ReplaceAll(c, AposEntity, Apos)
         IN  ReplaceAll(d, AmpEntity, Amp)
    ELSE s

----------------------------------------------------------------------------
(* JavaScript values: strings, objects (hashes) and arrays.                *)

Str(s) == [kind |-> "str", val |-> s]
Hash(ents) == [kind |-> "hash", val |-> ents]
Arr(items) == [kind |-> "arr", val |-> items]

isa_array(v) == v.kind = "arr"

\* typeof (hash[k]) != 'undefined'
HasKey(ents, k) == \E i \in 1..Len(ents) : ents[i].k = k

KeyIndex(ents, k) == CHOOSE i \in 1..Len(ents) : ents[i].k = k

\* hash[k]
Get(ents, k) == ents[KeyIndex(ents, k)].v

\* hash[k] = v: a new key goes last, an old key keeps its place
Put(ents, k, v) ==
    IF HasKey(ents, k)
    THEN [ents EXCEPT ![KeyIndex(ents, k)] = [k |-> k, v |-> v]]
    ELSE Append(ents, [k |-> k, v |-> v])

\* delete hash[k]
Delete(ents, k) == SelectSeq(ents, LAMBDA e : e.k # k)

num_keys(ents) == Len(ents)

first_key(ents) == IF ents = <<>> THEN Null ELSE ents[1].k

hash_keys_to_array(ents) == [i \in 1..Len(ents) |-> ents[i].k]

ObjectObject ==
    <<"[", "o", "b", "j", "e", "c", "t", " ", "O", "b", "j", "e", "c", "t", "]">>

\* String(v): what += and the default sort comparison make of a value
RECURSIVE JsString(_)
RECURSIVE Join(_)
JsString(v) ==
    CASE v.kind = "str" -> v.val
      [] v.kind = "hash" -> ObjectObject
      [] v.kind = "arr" -> Join(v.val)

Join(items) ==
    IF items = <<>> THEN <<>>
    ELSE IF Len(items) = 1 THEN JsString(items[1])
    ELSE JsString(items[1]) \o <<",">> \o Join(Tail(items))

----------------------------------------------------------------------------
(* The tag scanner and the node classifier: the regular expressions.       *)

NoMatch == [found |-> FALSE, before |-> <<>>, tag |-> <<>>, lastIndex |-> 0]

\* patTag.exec(text) from lastIndex li: /([^<]*?)<([^>]+)>/g.  A "<" that
\* ">" follows at once matches nothing, and the search goes on after it; a
\* failed search leaves lastIndex 0.
RECURSIVE patTagExec(_, _)
patTagExec(text, li) ==
    LET i == FirstIn(text, li + 1, {"<"})
    IN  IF i = 0 \/ i = Len(text) THEN NoMatch
        ELSE IF text[i + 1] = ">" THEN patTagExec(text, i)
        ELSE LET j == FirstIn(text, i + 2, {">"})
             IN  IF j = 0 THEN NoMatch
                 ELSE [found |-> TRUE,
                       before |-> SubSeq(text, li + 1, i - 1),
                       tag |-> SubSeq(text, i + 1, j - 1),
                       lastIndex |-> j]

\* patNextClose.exec(text) from lastIndex li: /([^>]*?)>/g
patNextCloseExec(text, li) ==
    LET j == FirstIn(text, li + 1, {">"})
    IN  IF j = 0 THEN NoMatch
        ELSE [found |-> TRUE, before |-> SubSeq(text, li + 1, j - 1),
              tag |-> <<>>, lastIndex |-> j]

\* the index of the first character of the tag after ^\s*
AfterSpace(tag) == SkipRun(tag, 1, SpaceChars)

\* /\S/
HasNonSpace(s) == \E i \in 1..Len(s) : s[i] \notin SpaceChars

\* /^\s*([\!\?])/
patSpecialTag(tag) ==
    LET i == AfterSpace(tag) IN i <= Len(tag) /\ tag[i] \in {"!", "?"}

\* /^\s*\?/
patPITag(tag) ==
    LET i == AfterSpace(tag) IN i <= Len(tag) /\ tag[i] = "?"

\* /^\s*\!--/
patCommentTag(tag) == StartsWithAt(tag, AfterSpace(tag), <<"!", "-", "-">>)

DoctypeWord == <<"!", "D", "O", "C", "T", "Y", "P", "E">>

\* /^\s*\!DOCTYPE/
patDTDTag(tag) == StartsWithAt(tag, AfterSpace(tag), DoctypeWord)

CdataWord == <<"C", "D", "A", "T", "A">>

\* the index after ^\s*\!\s*\[\s*CDATA, or 0
CdataPrefixEnd(tag) ==
    LET i == AfterSpace(tag)
    IN  IF ~(i <= Len(tag) /\ tag[i] = "!") THEN 0
        ELSE LET j == SkipRun(tag, i + 1, SpaceChars)
             IN  IF ~(j <= Len(tag) /\ tag[j] = "[") THEN 0
                 ELSE LET k == SkipRun(tag, j + 1, SpaceChars)
                      IN  IF StartsWithAt(tag, k, CdataWord) THEN k + 5 ELSE 0

\* /^\s*\!\s*\[\s*CDATA/
patCDATATag(tag) == CdataPrefixEnd(tag) # 0

\* tag.match(/^\s*(\/?)([\w\-\:\.]+)\s*([\s\S]*)$/)
patStandardTag(tag) ==
    LET i == AfterSpace(tag)
        closing == i <= Len(tag) /\ tag[i] = "/"
        n0 == IF closing THEN i + 1 ELSE i
        n1 == SkipRun(tag, n0, NameChars)
    IN  IF n1 = n0
        THEN [found |-> FALSE, closing |-> FALSE, name |-> <<>>, attribsRaw |-> <<>>]
        ELSE [found |-> TRUE, closing |-> closing, name |-> SubSeq(tag, n0, n1 - 1),
              attribsRaw |-> Drop(tag, SkipRun(tag, n1, SpaceChars) - 1)]

\* /\/\s*$/
patSelfClosing(attribsRaw) == EndsWith(TrimRight(attribsRaw), <<"/">>)

QuoteChars == {"\"", "'"}

\* every match of patAttrib in attribsRaw from index p on, in order:
\* /([\w\-\:\.]+)\s*=\s*([\"\'])([^\2]*?)\2/g
RECURSIVE patAttribMatches(_, _)
patAttribMatches(raw, p) ==
    LET s == FirstIn(raw, p, NameChars)
    IN  IF s = 0 THEN <<>>
        ELSE
          LET e == SkipRun(raw, s, NameChars)
              eq == SkipRun(raw, e, SpaceChars)
              q == SkipRun(raw, eq + 1, SpaceChars)
              c == IF q <= Len(raw) THEN FirstIn(raw, q + 1, {raw[q]}) ELSE 0
          IN  IF /\ eq <= Len(raw) /\ raw[eq] = "="
                 /\ q <= Len(raw) /\ raw[q] \in QuoteChars
                 /\ c # 0
              THEN <<[k |-> SubSeq(raw, s, e - 1), v |-> SubSeq(raw, q + 1, c - 1)]>>
                   \o patAttribMatches(raw, c + 1)
              ELSE patAttribMatches(raw, e)

\* /^\s*\?\s*([\w\-\:]+)\s*(.*)$/
patPINode(tag) ==
    LET i == AfterSpace(tag)
        j == SkipRun(tag, i + 1, SpaceChars)
        k == SkipRun(tag, j, PINameChars)
        r == SkipRun(tag, k, SpaceChars)
    IN  /\ i <= Len(tag) /\ tag[i] = "?"
        /\ k > j
        /\ FirstIn(tag, r, LineTerminators) = 0

\* the index after ^\s*\!DOCTYPE\s+([\w\-\:]+)\s+, or 0
DoctypePrefixEnd(tag) ==
    LET i == AfterSpace(tag)
        a == i + Len(DoctypeWord)
        b == SkipRun(tag, a, SpaceChars)
        c == SkipRun(tag, b, PINameChars)
        d == SkipRun(tag, c, SpaceChars)
    IN  IF StartsWithAt(tag, i, DoctypeWord) /\ b > a /\ c > b /\ d > c THEN d ELSE 0

\* ^\s*\!DOCTYPE\s+([\w\-\:]+)\s+(SYSTEM|PUBLIC)\s+\"([^\"]+)\"
patExternalDTDNode(tag) ==
    LET d == DoctypePrefixEnd(tag)
        e == d + 6
        f == SkipRun(tag, e, SpaceChars)
    IN  /\ d # 0
        /\ \/ StartsWithAt(tag, d, <<"S", "Y", "S", "T", "E", "M">>)
           \/ StartsWithAt(tag, d, <<"P", "U", "B", "L", "I", "C">>)
        /\ f > e
        /\ f <= Len(tag) /\ tag[f] = "\""
        /\ FirstIn(tag, f + 1, {"\""}) > f + 1

\* /^\s*\!DOCTYPE\s+([\w\-\:]+)\s+\[/
patInlineDTDNode(tag) ==
    LET d == DoctypePrefixEnd(tag) IN d # 0 /\ d <= Len(tag) /\ tag[d] = "["

\* /^\s*\!DOCTYPE\s+([\w\-\:]+)\s+\[(.*)\]/
patDTDNode(tag) ==
    LET d == DoctypePrefixEnd(tag)
    IN  /\ patInlineDTDNode(tag)
        /\ \E c \in (d + 1)..Len(tag) :
              /\ tag[c] = "]"
              /\ \A x \in (d + 1)..(c - 1) : tag[x] \notin LineTerminators

\* the ([^]*) of /^\s*\!\s*\[\s*CDATA\s*\[([^]*)\]\]/ in a tag that ends
\* with "]]"
patCDATANode(tag) ==
    LET k == CdataPrefixEnd(tag)
        b == SkipRun(tag, k, SpaceChars)
    IN  IF k # 0 /\ b <= Len(tag) /\ tag[b] = "["
        THEN [found |-> TRUE, content |-> SubSeq(tag, b + 1, Len(tag) - 2)]
        ELSE [found |-> FALSE, content |-> <<>>]

----------------------------------------------------------------------------
(* The XML parser class.  A parser object is a record; the recursion of    *)
(* parse is its stack of frames [branch, name], the root call first.       *)

AttribsKey == <<"_", "A", "t", "t", "r", "i", "b", "s">>
DataKey == <<"_", "D", "a", "t", "a">>

attribsKey(opts) == IF opts.lowerCase THEN toLowerCase(AttribsKey) ELSE AttribsKey
dataKey(opts) == IF opts.lowerCase THEN toLowerCase(DataKey) ELSE DataKey

DefaultOptions ==
    [preserveDocumentNode |-> FALSE, preserveAttributes |-> FALSE,
     preserveWhitespace |-> FALSE, lowerCase |-> FALSE, forceArrays |-> FALSE]

\* the test of the constructor that takes its argument as XML text, not as
\* a file path: text.match(/^\s*</)
IsXmlText(text) ==
    LET i == SkipRun(text, 1, SpaceChars) IN i <= Len(text) /\ text[i] = "<"

\* the object the constructor leaves before it calls parse
NewXML(text, opts) ==
    [text |-> text, opts |-> opts, tree |-> Hash(<<>>), errors |-> <<>>,
     piNodeList |-> <<>>, dtdNodeList |-> <<>>, documentNodeName |-> Null,
     stack |-> <<[branch |-> <<>>, name |-> Null]>>, status |-> "scanning"]

NoParser ==
    [text |-> <<>>, opts |-> DefaultOptions, tree |-> Hash(<<>>), errors |-> <<>>,
     piNodeList |-> <<>>, dtdNodeList |-> <<>>, documentNodeName |-> Null,
     stack |-> <<>>, status |-> "none"]

Key(msg, expected) == [msg |-> msg, expected |-> expected]

\* the line throwParseError computes with the cursor at li
lineNum(text, li, tag) ==
    CountIn(SubSeq(text, 1, li), {"\n"}) + 1 - CountIn(tag, {"\n"})

\* throwParseError: the error record is pushed and the parse is abandoned
throwParseError(p, li, key, tag) ==
    [p EXCEPT !.errors = Append(@, [type |-> "Parse", key |-> key,
                                    text |-> <<"<">> \o tag \o <<">">>,
                                    line |-> lineNum(p.text, li, tag)]),
              !.status = "thrown"]

error(p) == Len(p.errors)

\* getError: " on line N" is left out when the line is 0
getError(e) ==
    [head |-> <<e.type, " Error">>, key |-> e.key,
     line |-> IF e.line # 0 THEN <<e.line>> ELSE <<>>,
     text |-> e.text]

NoError == [head |-> <<>>, key |-> Key("", Null), line |-> <<>>, text |-> <<>>]

getLastError(p) == IF error(p) = 0 THEN NoError ELSE getError(p.errors[Len(p.errors)])

Top(p) == p.stack[Len(p.stack)]

SetBranch(p, ents) == [p EXCEPT !.stack[Len(p.stack)].branch = ents]

\* branch[dataKey] += text, after a separating space if the slot is there
AppendData(ents, opts, s) ==
    LET k == dataKey(opts)
        old == IF HasKey(ents, k) THEN JsString(Get(ents, k)) \o <<" ">> ELSE <<>>
        new == IF ~opts.preserveWhitespace THEN trim(decode_entities(s))
               ELSE decode_entities(s)
    IN  Put(ents, k, Str(old \o new))

\* the loops of parseCommentNode, parseDTDNode and parseCDATANode: chunks
\* up to the next ">" are appended until the tag ends with endLit
RECURSIVE ReadChunks(_, _, _, _)
ReadChunks(text, tag, cursor, endLit) ==
    IF EndsWith(tag, endLit) THEN [found |-> TRUE, tag |-> tag, lastIndex |-> cursor]
    ELSE LET m == patNextCloseExec(text, cursor)
         IN  IF m.found
             THEN ReadChunks(text, tag \o <<">">> \o m.before, m.lastIndex, endLit)
             ELSE [found |-> FALSE, tag |-> tag, lastIndex |-> cursor]

Out(p, li) == [p |-> p, li |-> li]

parsePINode(p, li, tag) ==
    IF ~patPINode(tag)
    THEN Out(throwParseError(p, li, Key("Malformed processor instruction", Null), tag), li)
    ELSE Out([p EXCEPT !.piNodeList = Append(@, tag)], li)

parseCommentNode(p, li, tag) ==
    LET r == ReadChunks(p.text, tag, li, <<"-", "-">>)
    IN  IF ~r.found
        THEN Out(throwParseError(p, li, Key("Unclosed comment tag", Null), r.tag), li)
        ELSE Out(p, r.lastIndex)

parseDTDNode(p, li, tag) ==
    IF patExternalDTDNode(tag)
    THEN Out([p EXCEPT !.dtdNodeList = Append(@, tag)], li)
    ELSE IF patInlineDTDNode(tag)
    THEN LET r == ReadChunks(p.text, tag, li, <<"]">>)
         IN  IF ~r.found
             THEN Out(throwParseError(p, li, Key("Unclosed DTD tag", Null), r.tag), li)
             ELSE IF patDTDNode(r.tag)
             THEN Out([p EXCEPT !.dtdNodeList = Append(@, r.tag)], r.lastIndex)
             ELSE Out(throwParseError(p, r.lastIndex, Key("Malformed DTD tag", Null), r.tag),
                      r.lastIndex)
    ELSE Out(throwParseError(p, li, Key("Malformed DTD tag", Null), tag), li)

\* parseCDATANode and the lines of parse that add its text to the branch
parseCDATANode(p, li, tag) ==
    LET r == ReadChunks(p.text, tag, li, <<"]", "]">>)
        m == patCDATANode(r.tag)
    IN  IF ~r.found
        THEN Out(throwParseError(p, li, Key("Unclosed CDATA tag", Null), r.tag), li)
        ELSE IF ~m.found
        THEN Out(throwParseError(p, r.lastIndex, Key("Malformed CDATA tag", Null), r.tag),
                 r.lastIndex)
        ELSE Out(SetBranch(p, AppendData(Top(p).branch, p.opts, m.content)), r.lastIndex)

\* the special-tag branch of parse
SpecialTag(p, li, tag) ==
    IF patPITag(tag) THEN parsePINode(p, li, tag)
    ELSE IF patCommentTag(tag) THEN parseCommentNode(p, li, tag)
    ELSE IF patDTDTag(tag) THEN parseDTDNode(p, li, tag)
    ELSE IF patCDATATag(tag) THEN parseCDATANode(p, li, tag)
    ELSE Out(throwParseError(p, li, Key("Malformed special tag", Null), tag), li)

\* the attribute loop of parse: attribs[key] = decode_entities(value)
RECURSIVE SetAttribs(_, _, _)
SetAttribs(ents, matches, opts) ==
    IF matches = <<>> THEN ents
    ELSE LET key == IF opts.lowerCase THEN toLowerCase(matches[1].k) ELSE matches[1].k
         IN  SetAttribs(Put(ents, key, Str(decode_entities(matches[1].v))),
                        Tail(matches), opts)

\* the leaf an opening tag starts with: its attributes, merged into the
\* leaf or kept under attribsKey, which is deleted again when it is empty
NewLeaf(attribsRaw, opts) ==
    LET attribs == SetAttribs(<<>>, patAttribMatches(attribsRaw, 1), opts)
    IN  IF opts.preserveAttributes
        THEN IF attribs = <<>> THEN <<>>
             ELSE <<[k |-> attribsKey(opts), v |-> Hash(attribs)]>>
        ELSE attribs

\* "Compress into simple node if text only"
Compress(leaf, opts) ==
    IF HasKey(leaf, dataKey(opts)) /\ num_keys(leaf) = 1 THEN Get(leaf, dataKey(opts))
    ELSE IF num_keys(leaf) = 0 THEN Str(<<>>)
    ELSE Hash(leaf)

\* a faulty AddLeaf: a further duplicate wraps the array instead of joining it
AddLeafNested(branch, nodeName, leaf, force) ==
    IF HasKey(branch, nodeName)
    THEN Put(branch, nodeName, Arr(<<Get(branch, nodeName), leaf>>))
    ELSE IF force THEN Put(branch, nodeName, Arr(<<leaf>>))
    ELSE Put(branch, nodeName, leaf)

\* "Add leaf to parent branch"; force is forceArrays && (branch != this.tree)
AddLeaf(branch, nodeName, leaf, force) ==
    IF HasKey(branch, nodeName)
    THEN IF isa_array(Get(branch, nodeName))
         THEN Put(branch, nodeName, Arr(Append(Get(branch, nodeName).val, leaf)))
         ELSE Put(branch, nodeName, Arr(<<Get(branch, nodeName), leaf>>))
    ELSE IF force THEN Put(branch, nodeName, Arr(<<leaf>>))
    ELSE Put(branch, nodeName, leaf)

\* the end of the root call: "If we are the master node, finish parsing and
\* setup our doc node"
FinishRoot(p, li) ==
    LET ents == Delete(p.stack[1].branch, dataKey(p.opts))
        doc == first_key(ents)
    IN  IF num_keys(ents) > 1
        THEN throwParseError([p EXCEPT !.tree = Hash(ents)], li,
                 Key("Only one top-level node is allowed in document", Null), doc)
        ELSE [p EXCEPT !.documentNodeName = doc,
                       !.tree = IF doc # Null /\ ~p.opts.preserveDocumentNode
                                THEN Get(ents, doc) ELSE Hash(ents),
                       !.stack = <<>>,
                       !.status = "returned"]

\* a finished leaf is compressed and added to the branch of the frame that
\* is now on top; the root call then leaves its loop
Attach(p, li, nodeName, leaf) ==
    LET isRoot == Len(p.stack) = 1
        q == SetBranch(p, AddLeaf(Top(p).branch, nodeName, Compress(leaf, p.opts),
                                  p.opts.forceArrays /\ ~isRoot))
    IN  IF isRoot THEN FinishRoot(q, li) ELSE q

\* the standard-tag branch of parse
StandardTag(p, li, tag) ==
    LET m == patStandardTag(tag)
        nodeName == IF p.opts.lowerCase THEN toLowerCase(m.name) ELSE m.name
        name == Top(p).name
    IN  IF ~m.found THEN throwParseError(p, li, Key("Malformed tag", Null), tag)
        ELSE IF m.closing
        THEN IF nodeName = name
             THEN Attach([p EXCEPT !.stack = SubSeq(@, 1, Len(@) - 1)], li,
                         name, Top(p).branch)
             ELSE throwParseError(p, li, Key("Mismatched closing tag", name), tag)
        ELSE IF patSelfClosing(m.attribsRaw)
        THEN Attach(p, li, nodeName, NewLeaf(m.attribsRaw, p.opts))
        ELSE [p EXCEPT !.stack = Append(@, [branch |-> NewLeaf(m.attribsRaw, p.opts),
                                            name |-> nodeName])]

\* one turn of the loop of parse in the innermost call, and what follows
\* the loop when the text holds no further tag
parseIteration(p, li) ==
    LET m == patTagExec(p.text, li)
    IN  IF ~m.found
        THEN IF Top(p).name # Null
             THEN Out(throwParseError(p, m.lastIndex,
                          Key("Missing closing tag", Top(p).name), Top(p).name),
                      m.lastIndex)
             ELSE Out(FinishRoot(p, m.lastIndex), m.lastIndex)
        ELSE LET q == IF HasNonSpace(m.before)
                      THEN SetBranch(p, AppendData(Top(p).branch, p.opts, m.before))
                      ELSE p
             IN  IF patSpecialTag(m.tag) THEN SpecialTag(q, m.lastIndex, m.tag)
                 ELSE Out(StandardTag(q, m.lastIndex, m.tag), m.lastIndex)

\* XML.prototype.parse, run until it returns or throws
RECURSIVE parse(_, _)
parse(p, li) ==
    IF p.status # "scanning" THEN Out(p, li)
    ELSE LET r == parseIteration(p, li) IN parse(r.p, r.li)

\* what a call of parse_xml comes to for its caller
Outcome(p) ==
    IF p.status = "thrown"
    THEN [kind |-> "throw", error |-> getLastError(p), tree |-> Hash(<<>>)]
    ELSE IF error(p) # 0
    THEN [kind |-> "string", error |-> getLastError(p), tree |-> Hash(<<>>)]
    ELSE [kind |-> "tree", error |-> NoError, tree |-> p.tree]

NoOutcome == [kind |-> "none", error |-> NoError, tree |-> Hash(<<>>)]

\* new XML(opts) with opts.text = text: lastIndex is reset, then parse runs
Construct(text, opts) == parse(NewXML(text, opts), 0)

----------------------------------------------------------------------------
(* The composer.                                                           *)

XmlHeader ==
    <<"<", "?", "x", "m", "l", " ", "v", "e", "r", "s", "i", "o", "n", "=",
      "\"", "1", ".", "0", "\"", "?", ">">>

\* a < b in the order of code units
RECURSIVE LessStr(_, _)
LessStr(a, b) ==
    IF b = <<>> THEN FALSE
    ELSE IF a = <<>> THEN TRUE
    ELSE IF Head(a) = Head(b) THEN LessStr(Tail(a), Tail(b))
    ELSE CharCode[Head(a)] < CharCode[Head(b)]

\* whether x goes before y.  The comparator "undefined" is the default
\* order of Array.prototype.sort, by String(x); "descending" is a callback
\* a caller may pass: (a, b) => String(b) < String(a) ? -1 : ...
Before(cmp, x, y) ==
    IF cmp = "descending" THEN LessStr(JsString(y), JsString(x))
    ELSE LessStr(JsString(x), JsString(y))

\* x put into the sorted sequence s behind every member it does not precede
RECURSIVE SortInsert(_, _, _)
SortInsert(cmp, s, x) ==
    IF s # <<>> /\ ~Before(cmp, x, Head(s))
    THEN <<Head(s)>> \o SortInsert(cmp, Tail(s), x)
    ELSE <<x>> \o s

\* Array.prototype.sort(cmp): stable
RECURSIVE ArraySort(_, _)
ArraySort(cmp, s) ==
    IF s = <<>> THEN <<>>
    ELSE SortInsert(cmp, ArraySort(cmp, SubSeq(s, 1, Len(s) - 1)), s[Len(s)])

DefaultCompose ==
    [indent_string |-> <<"\t">>, eol |-> <<"\n">>, sort |-> TRUE,
     tag_sorter_by_name |-> "undefined", tag_sorter_with_same_name |-> "undefined",
     attribute_sorter |-> "undefined"]

RECURSIVE Repeat(_, _)
Repeat(s, n) == IF n = 0 THEN <<>> ELSE s \o Repeat(s, n - 1)

RECURSIVE Concat(_)
Concat(ss) == IF ss = <<>> THEN <<>> ELSE Head(ss) \o Concat(Tail(ss))

\* the truth value JavaScript gives a value of the tree
Truthy(v) == v.kind # "str" \/ v.val # <<>>

\* re_valid_tag_name: /^\w[\w\-\:\.]*$/
re_valid_tag_name(key) ==
    /\ key # <<>>
    /\ key[1] \in WordChars
    /\ \A i \in 2..Len(key) : key[i] \in NameChars

\* the keys of a hash as strings, sorted when sort is set
SortedKeys(ents, sort, cmp) ==
    LET keys == hash_keys_to_array(ents)
        strs == [i \in 1..Len(keys) |-> Str(keys[i])]
        sorted == IF sort THEN ArraySort(cmp, strs) ELSE strs
    IN  [i \in 1..Len(sorted) |-> sorted[i].val]

\* the attributes of an opening tag
RECURSIVE ComposeAttribs(_, _)
ComposeAttribs(attribs, keys) ==
    IF keys = <<>> THEN <<>>
    ELSE <<" ">> \o Head(keys) \o <<"=", "\"">>
         \o encode_attrib_entities(JsString(Get(attribs, Head(keys)))) \o << "\"" >>
         \o ComposeAttribs(attribs, Tail(keys))

Composed(x, n) == [xml |-> x, node |-> n]

\* compose_xml(node, name, indent, ...) with the options o: the text it
\* returns and the value of node when it returns (sort works in place)
RECURSIVE compose_xml(_, _, _, _)
RECURSIVE ComposeChildren(_, _, _, _)
RECURSIVE ComposeMembers(_, _, _, _)
compose_xml(node0, name0, indent, o) ==
    LET unwrap == indent = 0 /\ name0 = Null
        header == IF indent = 0 THEN XmlHeader \o o.eol ELSE <<>>
        name == IF unwrap THEN first_key(node0.val) ELSE name0
        node == IF unwrap THEN Get(node0.val, name) ELSE node0
        indent_text == Repeat(o.indent_string, indent)
        open == indent_text \o <<"<">> \o name
        close == <<"<", "/">> \o name \o <<">">> \o o.eol
        wrap(n) == IF unwrap THEN Hash(Put(node0.val, name, n)) ELSE n
    IN  IF node.kind = "str"
        THEN Composed(header \o open \o <<">">> \o node.val \o close, node0)
        ELSE IF node.kind = "arr" /\ node.val # <<>>
        THEN LET sorted == IF o.sort
                           THEN ArraySort(o.tag_sorter_with_same_name, node.val)
                           ELSE node.val
                 r == ComposeMembers(sorted, name, indent, o)
             IN  Composed(header \o r.xml, wrap(Arr(r.node)))
        ELSE
          LET ents == IF node.kind = "hash" THEN node.val ELSE <<>>
              has_attribs == HasKey(ents, AttribsKey) /\ Truthy(Get(ents, AttribsKey))
              attribs == IF has_attribs /\ Get(ents, AttribsKey).kind = "hash"
                         THEN Get(ents, AttribsKey).val ELSE <<>>
              attrText == ComposeAttribs(attribs,
                              SortedKeys(attribs, o.sort, o.attribute_sorter))
              start == header \o open \o attrText
          IN  IF num_keys(ents) > (IF has_attribs THEN 1 ELSE 0)
              THEN IF HasKey(ents, DataKey) /\ Truthy(Get(ents, DataKey))
                   THEN Composed(start \o <<">">>
                                 \o encode_entities(JsString(Get(ents, DataKey)))
                                 \o close, node0)
                   ELSE LET r == ComposeChildren(ents,
                                     SortedKeys(ents, o.sort, o.tag_sorter_by_name),
                                     indent, o)
                        IN  Composed(start \o <<">">> \o o.eol \o r.xml
                                     \o indent_text \o close,
                                     wrap(Hash(r.node)))
              ELSE Composed(start \o <<"/", ">">> \o o.eol, node0)

\* the loop over the keys of a hash: every key but "_Attribs" that is a
\* valid tag name is composed one level deeper
ComposeChildren(ents, keys, indent, o) ==
    IF keys = <<>> THEN Composed(<<>>, ents)
    ELSE IF Head(keys) # AttribsKey /\ re_valid_tag_name(Head(keys))
    THEN LET c == compose_xml(Get(ents, Head(keys)), Head(keys), indent + 1, o)
             r == ComposeChildren(Put(ents, Head(keys), c.node), Tail(keys), indent, o)
         IN  Composed(c.xml \o r.xml, r.node)
    ELSE ComposeChildren(ents, Tail(keys), indent, o)

\* the loop over the members of an array: each is composed under the same
\* name at the same indent
ComposeMembers(items, name, indent, o) ==
    IF items = <<>> THEN Composed(<<>>, <<>>)
    ELSE LET c == compose_xml(Head(items), name, indent, o)
             r == ComposeMembers(Tail(items), name, indent, o)
         IN  Composed(c.xml \o r.xml, <<c.node>> \o r.node)

\* XML.prototype.compose: compose_xml of the tree under the document name,
\* its header replaced by the captured declarations
compose(p, o) ==
    LET tree == IF p.opts.preserveDocumentNode THEN Get(p.tree.val, p.documentNodeName)
                ELSE p.tree
        raw == compose_xml(tree, p.documentNodeName, 0, [o EXCEPT !.sort = TRUE])
        afterPI == Drop(raw.xml, Len(XmlHeader))
        body == Drop(afterPI, SkipRun(afterPI, 1, SpaceChars) - 1)
        decl(list) == [i \in 1..Len(list) |-> <<"<">> \o list[i] \o <<">">> \o o.eol]
        pis == IF p.piNodeList # <<>> THEN decl(p.piNodeList) ELSE <<XmlHeader \o o.eol>>
        new == IF p.opts.preserveDocumentNode
               THEN Hash(Put(p.tree.val, p.documentNodeName, raw.node)) ELSE raw.node
    IN  Composed(Concat(pis) \o Concat(decl(p.dtdNodeList)) \o body, new)

----------------------------------------------------------------------------
(* The inputs: every document of at most MaxTokens of a few tags and       *)
(* texts, under every option that shapes the tree, and the documents of    *)
(* the examples, under every option.                                       *)

MaxTokens == 5

Tokens ==
    { <<"<", "a", ">">>,
      <<"<", "/", "a", ">">>,
      <<"<", "b", "/", ">">>,
      <<"<", "b", " ", "c", "=", "\"", "1", "\"", "/", ">">>,
      <<"x">>,
      <<"<", "a", " ", "b", "=", "\"", "y", "\"", ">">> }

TokenDocs ==
    { Concat(ts) : ts \in UNION { [1..n -> Tokens] : n \in 1..MaxTokens } }

SampleDocs ==
    { \* §8 examples
      <<"<", "A", "/", ">", "<", "B", "/", ">">>,
      <<"<", "A", ">", "<", "/", "A", ">", "<", "B", ">", "<", "/", "B", ">">>,
      <<"<", "A", ">", "<", "B", ">", "<", "/", "A", ">">>,
      <<"<", "A", ">", "<", "B", ">", "<", "/", "B", ">">>,
      <<"<", "R", ">", "<", "I", ">", "1", "<", "/", "I", ">", "<", "I", ">", "2", "<", "/", "I", ">", "<", "/", "R", ">">>,
      <<"<", "R", ">", "<", "X", " ", "k", "=", "\"", "v", "\"", "/", ">", "<", "/", "R", ">">>,
      <<"<", "R", ">", "<", "!", "[", "C", "D", "A", "T", "A", "[", "a", ">", "b", "]", "]", ">", "<", "/", "R", ">">>,
      <<"<", "?", "x", "m", "l", " ", "v", "e", "r", "s", "i", "o", "n", "=", "\"", "1", ".", "0", "\"", "?", ">", "<", "D", "o", "c", ">", "<", "I", "t", "e", "m", " ", "i", "d", "=", "\"", "1", "\"", ">", "H", "e", "l", "l", "o", "<", "/", "I", "t", "e", "m", ">", "<", "/", "D", "o", "c", ">">>,
      \* text, entities and attributes
      <<"<", "R", ">", "<", "I", ">", "2", "<", "/", "I", ">", "<", "I", ">", "1", "<", "/", "I", ">", "<", "/", "R", ">">>,
      <<"<", "R", ">", "<", "I", ">", "a", "&", "a", "m", "p", ";", "l", "t", ";", "<", "/", "I", ">", "<", "/", "R", ">">>,
      <<"<", "R", ">", "<", "I", ">", "&", "l", "t", ";", "<", "/", "I", ">", "<", "/", "R", ">">>,
      <<"<", "R", ">", "<", "I", ">", "&", "g", "t", ";", " ", "&", "a", "m", "p", ";", "<", "/", "I", ">", "<", "/", "R", ">">>,
      <<"<", "R", ">", "t", "<", "I", ">", "u", "<", "/", "I", ">", "<", "/", "R", ">">>,
      <<"<", "R", " ", "k", "=", "\"", "&", "l", "t", ";", "&", "q", "u", "o", "t", ";", "\"", " ", "j", "=", "'", "2", "'", ">", "<", "I", "/", ">", "t", "<", "/", "R", ">">>,
      <<"<", "R", ">", "\n", " ", "<", "I", ">", " ", "a", " ", "<", "/", "I", ">", "\n", "<", "/", "R", ">">>,
      \* line numbers
      <<"<", "A", ">", "\n", "<", "B", ">", "\n", "<", "/", "B", ">", "\n">>,
      <<"<", "A", ">", "\n", "\n", "<", "/", "B", ">">>,
      <<"\n", "<", "A", ">", "\n", "<", "!", "x", ">">>,
      <<"<", "A", ">", "\n", "<", "!", "-", "-", " ", "a", ">", "\n", " ", "b", ">", " ", "c">>,
      <<"<", "A", ">", "<", "!", "-", "-", " ", "a", ">", "\n", "\n", " ", "b">>,
      <<"<", "A", ">", "\n", "<", "!", "[", "C", "D", "A", "T", "A", "[", " ", "a", ">", "\n">>,
      <<"<", "A", ">", "\n", "<", "B", "\n", "k", "=", "\"", "1", "\"", ">", "<", "/", "A", ">">>,
      \* declarations
      <<"<", "!", "-", "-", " ", "c", " ", "-", "-", ">", "<", "A", "/", ">">>,
      <<"<", "!", "D", "O", "C", "T", "Y", "P", "E", " ", "a", " ", "S", "Y", "S", "T", "E", "M", " ", "\"", "x", "\"", ">", "<", "a", "/", ">">>,
      <<"<", "!", "D", "O", "C", "T", "Y", "P", "E", " ", "a", " ", "[", " ", "<", "!", "E", ">", " ", "]", ">", "<", "a", "/", ">">>,
      <<"<", "!", "D", "O", "C", "T", "Y", "P", "E", " ", "a", " ", "[", "\n", "]", ">", "<", "a", "/", ">">>,
      <<"<", "!", "D", "O", "C", "T", "Y", "P", "E", " ", "a", ">", "<", "a", "/", ">">>,
      <<"<", "?", "p", "\n", "?", ">", "<", "A", "/", ">">>,
      <<"<", "!", "[", "C", "D", "A", "T", "A", "]", "]", ">", "<", "A", "/", ">">>,
      <<"<", "A", ">", "<", "!", "[", "C", "D", "A", "T", "A", "[", "]", "]", ">", "<", "B", "/", ">", "<", "/", "A", ">">>,
      <<"<", "A", ">", "<", ">", "<", "/", "A", ">">>,
      <<"<", "A", ">", "<", "/", " ", ">", "<", "/", "A", ">">> }

BOOL == {TRUE, FALSE}

AllOptions ==
    [preserveDocumentNode : BOOL, preserveAttributes : BOOL,
     preserveWhitespace : BOOL, lowerCase : BOOL, forceArrays : BOOL]

TreeOptions == {o \in AllOptions : ~o.preserveWhitespace /\ ~o.lowerCase}

\* attribute preservation on, every other option at its default
AttribOptions == [DefaultOptions EXCEPT !.preserveAttributes = TRUE]

TokenOptions == {o \in TreeOptions : ~o.preserveDocumentNode}

\* the arguments of parse_xml: texts the constructor takes as XML
Inputs ==
    { [text |-> d, opts |-> o] : d \in {t \in TokenDocs : IsXmlText(t)},
                                 o \in TokenOptions }
    \cup { [text |-> d, opts |-> o] : d \in SampleDocs, o \in AllOptions }

\* the documents that are composed and parsed again
MaxComposeTokens == 4

ComposeDocs ==
    { Concat(ts) : ts \in UNION { [1..n -> Tokens] : n \in 1..MaxComposeTokens } }

ComposeInputs ==
    { [text |-> d, opts |-> o] :
          d \in {t \in ComposeDocs : IsXmlText(t)},
          o \in {t \in TreeOptions : ~t.forceArrays} }
    \cup { [text |-> d, opts |-> o] : d \in SampleDocs, o \in TreeOptions }

\* the options of compose_xml: the defaults, no sorting, and the callbacks
Descending ==
    [DefaultCompose EXCEPT !.tag_sorter_by_name = "descending",
                           !.tag_sorter_with_same_name = "descending",
                           !.attribute_sorter = "descending"]

ComposeOptions ==
    { DefaultCompose, [DefaultCompose EXCEPT !.sort = FALSE], Descending,
      [DefaultCompose EXCEPT !.indent_string = <<" ", " ">>, !.eol = <<>>] }

PIDs == {1, 2}

NoSubject == [before |-> Hash(<<>>), after |-> Hash(<<>>), name |-> Null,
              opts |-> DefaultCompose, by |-> "none"]

NoCodec == [stage |-> "none", input |-> <<>>, encoded |-> <<>>, decoded |-> <<>>]

----------------------------------------------------------------------------
(* The calling program: parse_xml of a document, then stringify of the     *)
(* tree or compose of the parser object, then parse_xml of the text that   *)
(* gave, with the same options.                                            *)

Init ==
    /\ parsers = [i \in PIDs |-> NoParser]
    /\ lastIndex = 0
    /\ results = [i \in PIDs |-> NoOutcome]
    /\ subject = NoSubject
    /\ xml = <<>>
    /\ codec = NoCodec
    /\ pc = "start"

\* parse_xml(text, opts) by parser object i
Parse(i, in) ==
    LET r == Construct(in.text, in.opts)
    IN  /\ parsers' = [parsers EXCEPT ![i] = r.p]
        /\ lastIndex' = r.li
        /\ results' = [results EXCEPT ![i] = Outcome(r.p)]
        /\ UNCHANGED <<subject, xml, codec>>

ParseXml ==
    /\ pc = "start"
    /\ \E in \in Inputs : Parse(1, in)
    /\ pc' = "parsed"

\* parse_xml of a document that is to be composed
ParseDocument ==
    /\ pc = "start"
    /\ \E in \in ComposeInputs : Parse(1, in)
    /\ pc' = "parsed"

\* stringify(tree, name, ...): the tree parse_xml returned, under the name
\* of the document element, or unnamed when the tree kept its wrapper
Stringify ==
    /\ pc = "parsed"
    /\ results[1].kind = "tree"
    /\ parsers[1].documentNodeName # Null
    /\ \E o \in ComposeOptions :
          LET name == IF parsers[1].opts.preserveDocumentNode THEN Null
                      ELSE parsers[1].documentNodeName
              r == compose_xml(parsers[1].tree, name, 0, o)
          IN  /\ subject' = [before |-> parsers[1].tree, after |-> r.node,
                             name |-> name, opts |-> o, by |-> "stringify"]
              /\ parsers' = [parsers EXCEPT ![1].tree = r.node]
              /\ xml' = r.xml
    /\ pc' = "composed"
    /\ UNCHANGED <<lastIndex, results, codec>>

\* parser.compose(indent_string, eol, sorters...) on the parser object
Compose ==
    /\ pc = "parsed"
    /\ parsers[1].status = "returned"
    /\ parsers[1].documentNodeName # Null
    /\ \E o \in {c \in ComposeOptions : c.sort} :
          LET r == compose(parsers[1], o)
          IN  /\ subject' = [before |-> parsers[1].tree, after |-> r.node,
                             name |-> parsers[1].documentNodeName, opts |-> o,
                             by |-> "compose"]
              /\ parsers' = [parsers EXCEPT ![1].tree = r.node]
              /\ xml' = r.xml
    /\ pc' = "composed"
    /\ UNCHANGED <<lastIndex, results, codec>>

\* parse_xml(xml, opts) of the composed text
Reparse ==
    /\ pc = "composed"
    /\ Parse(2, [text |-> xml, opts |-> parsers[1].opts])
    /\ pc' = "done"

\* the parser alone
Next == ParseXml

Spec == Init /\ [][Next]_vars

\* parse, compose, parse again
NextCompose == ParseDocument \/ Stringify \/ Compose \/ Reparse

SpecCompose == Init /\ [][NextCompose]_vars

----------------------------------------------------------------------------
(* The entity codec on its own: a string is encoded for text or for an     *)
(* attribute value, and what that gave is decoded.                         *)

MaxStrLen == 4

CodecChars == {"&", "<", ">", "\"", "'", ";", "l", "t"}

CodecStrings == UNION { [1..n -> CodecChars] : n \in 0..MaxStrLen }

InitCodec ==
    /\ parsers = [i \in PIDs |-> NoParser]
    /\ lastIndex = 0
    /\ results = [i \in PIDs |-> NoOutcome]
    /\ subject = NoSubject
    /\ xml = <<>>
    /\ codec \in {[NoCodec EXCEPT !.stage = "input", !.input = s] : s \in CodecStrings}
    /\ pc = "start"

EncodeEntities ==
    /\ codec.stage = "input"
    /\ codec' = [codec EXCEPT !.stage = "encoded",
                              !.encoded = encode_entities(codec.input)]
    /\ UNCHANGED <<parsers, lastIndex, results, subject, xml, pc>>

EncodeAttribEntities ==
    /\ codec.stage = "input"
    /\ codec' = [codec EXCEPT !.stage = "encoded",
                              !.encoded = encode_attrib_entities(codec.input)]
    /\ UNCHANGED <<parsers, lastIndex, results, subject, xml, pc>>

DecodeEntities ==
    /\ codec.stage = "encoded"
    /\ codec' = [codec EXCEPT !.stage = "decoded",
                              !.decoded = decode_entities(codec.encoded)]
    /\ UNCHANGED <<parsers, lastIndex, results, subject, xml, pc>>

NextCodec == EncodeEntities \/ EncodeAttribEntities \/ DecodeEntities

SpecCodec == InitCodec /\ [][NextCodec]_vars

----------------------------------------------------------------------------
(* Two parser objects whose scans take turns. patTag is one regular        *)
(* expression on the prototype, so its lastIndex is one value for both.    *)

MaxSharedTokens == 2

SharedDocs ==
    { Concat(ts) : ts \in UNION { [1..n -> Tokens] : n \in 1..MaxSharedTokens } }

SharedInputs ==
    { [text |-> d, opts |-> AttribOptions] : d \in {t \in SharedDocs : IsXmlText(t)} }

\* new XML(text, opts) up to the call of parse: lastIndex is reset
NewParser(i) ==
    /\ parsers[i].status = "none"
    /\ \E in \in SharedInputs :
          parsers' = [parsers EXCEPT ![i] = NewXML(in.text, in.opts)]
    /\ lastIndex' = 0
    /\ UNCHANGED <<results, subject, xml, codec, pc>>

\* one turn of the loop of parse of parser object i
ScanStep(i) ==
    /\ parsers[i].status = "scanning"
    /\ LET r == parseIteration(parsers[i], lastIndex)
       IN  /\ parsers' = [parsers EXCEPT ![i] = r.p]
           /\ lastIndex' = r.li
           /\ results' = [results EXCEPT
                             ![i] = IF r.p.status = "scanning" THEN @
                                    ELSE Outcome(r.p)]
    /\ UNCHANGED <<subject, xml, codec, pc>>

NextShared == \E i \in PIDs : NewParser(i) \/ ScanStep(i)

SpecShared == Init /\ [][NextShared]_vars

----------------------------------------------------------------------------
(* What the properties speak of, read off the document: its tags, their   *)
(* nesting, its top-level elements and the child elements of an element.   *)

\* the tags of a text from index i on, in order: type, name and place
RECURSIVE RefTags(_, _)
RefTags(text, i) ==
    LET lt == FirstIn(text, i, {"<"})
        gt == IF lt = 0 THEN 0 ELSE FirstIn(text, lt, {">"})
        inner == SubSeq(text, lt + 1, gt - 1)
        closing == inner # <<>> /\ Head(inner) = "/"
        body == IF closing THEN Tail(inner) ELSE inner
    IN  IF lt = 0 \/ gt = 0 THEN <<>>
        ELSE <<[type |-> IF closing THEN "close"
                         ELSE IF EndsWith(inner, <<"/">>) THEN "empty" ELSE "open",
                name |-> SubSeq(body, 1, SkipRun(body, 1, NameChars) - 1),
                at |-> lt, end |-> gt]>>
             \o RefTags(text, gt + 1)

\* a document of standard tags and text only
Plain(text) ==
    /\ \A t \in Range(RefTags(text, 1)) : t.name # <<>>
    /\ \A i \in 1..Len(text) :
          text[i] = ">" =>
              \E t \in Range(RefTags(text, 1)) : t.end = i

\* the nesting of a sequence of tags under the open elements: "ok", the
\* first "mismatch" with the element that was open, or "missing" with the
\* innermost element the end of the input leaves open
RECURSIVE RefNest(_, _)
RefNest(tags, open) ==
    IF tags = <<>>
    THEN IF open = <<>> THEN [r |-> "ok", name |-> Null]
         ELSE [r |-> "missing", name |-> open[Len(open)]]
    ELSE IF Head(tags).type = "close"
    THEN IF open # <<>> /\ open[Len(open)] = Head(tags).name
         THEN RefNest(Tail(tags), SubSeq(open, 1, Len(open) - 1))
         ELSE [r |-> "mismatch",
               name |-> IF open = <<>> THEN Null ELSE open[Len(open)]]
    ELSE IF Head(tags).type = "open"
    THEN RefNest(Tail(tags), Append(open, Head(tags).name))
    ELSE RefNest(Tail(tags), open)

\* the index in tags of the tag that closes the element tag k opens
RECURSIVE RefClose(_, _, _)
RefClose(tags, k, depth) ==
    IF k > Len(tags) THEN 0
    ELSE IF tags[k].type = "empty" THEN IF depth = 0 THEN k
                                        ELSE RefClose(tags, k + 1, depth)
    ELSE IF tags[k].type = "open" THEN RefClose(tags, k + 1, depth + 1)
    ELSE IF depth = 1 THEN k
    ELSE RefClose(tags, k + 1, depth - 1)

\* the elements that are siblings from tag k up to tag last: the tag
\* indexes [from, to] of each, in document order
RECURSIVE RefSiblings(_, _, _)
RefSiblings(tags, k, last) ==
    IF k > last THEN <<>>
    ELSE LET c == RefClose(tags, k, 0)
         IN  IF c = 0 \/ c > last THEN <<>>
             ELSE <<[from |-> k, to |-> c]>> \o RefSiblings(tags, c + 1, last)

\* a document whose tags nest properly
WellNested(text) ==
    Plain(text) /\ RefNest(RefTags(text, 1), <<>>).r = "ok"

\* the number of top-level elements of a well-nested document
TopLevelElements(text) ==
    Len(RefSiblings(RefTags(text, 1), 1, Len(RefTags(text, 1))))

\* a well-formed document: one top-level element, and nothing but space
\* around it
WellFormed(text) ==
    LET tags == RefTags(text, 1)
    IN  /\ WellNested(text)
        /\ TopLevelElements(text) = 1
        /\ ~HasNonSpace(SubSeq(text, 1, tags[1].at - 1))
        /\ ~HasNonSpace(Drop(text, tags[Len(tags)].end))

ElementText(text, tags, e) == SubSeq(text, tags[e.from].at, tags[e.to].end)

P1 == parsers[1]

\* the error record of the failed parse
LastError(p) == p.errors[Len(p.errors)]

Failed(i) == results[i].kind \notin {"tree", "none"}

----------------------------------------------------------------------------
(* The properties.                                                         *)

\* C2: parsing an input with two or more sibling top-level elements fails
\* with 'Only one top-level node is allowed in document'; no such input
\* parses successfully.
C2_TooManyTopLevelNodes ==
    (pc = "parsed" /\ WellNested(P1.text) /\ TopLevelElements(P1.text) >= 2)
        => /\ Failed(1)
           /\ results[1].error.key.msg = "Only one top-level node is allowed in document"

\* C3: in a sequence of standard tags, the first closing tag that does not
\* name the innermost open element (or meets no open element) fails the
\* parse with "Mismatched closing tag", and the end of the input with an
\* element open fails it with "Missing closing tag" naming the innermost
\* open element.
C3_NestingEnforced ==
    (pc = "parsed" /\ Plain(P1.text) /\ ~P1.opts.lowerCase)
        => LET n == RefNest(RefTags(P1.text, 1), <<>>)
           IN  /\ n.r = "mismatch" =>
                     /\ Failed(1)
                     /\ results[1].error.key.msg = "Mismatched closing tag"
               /\ n.r = "missing" =>
                     /\ Failed(1)
                     /\ results[1].error.key = Key("Missing closing tag", n.name)

\* C4: on an input with a parse error, parse_xml returns the formatted
\* string of the first error, 'Parse Error: {message} on line {N}: <{tag}>',
\* as its value, and never a tree; on an input without error, the tree.
C4_ReturnsErrorString ==
    pc = "parsed"
        => IF error(P1) > 0
           THEN /\ results[1].kind = "string"
                /\ results[1].error = getError(P1.errors[1])
                /\ results[1].error.line # <<>>
           ELSE results[1].kind = "tree" /\ results[1].tree = P1.tree

\* the places of a text where lit occurs
Occurrences(text, lit) == {i \in 1..Len(text) : StartsWithAt(text, i, lit)}

\* the line of a text on which index i lies
LineOf(text, i) == 1 + CountIn(SubSeq(text, 1, i - 1), {"\n"})

\* C9: the line recorded with a parse failure is at least 1, and is the
\* line on which the offending tag starts (the tag is located where the
\* text holds it exactly once).
C9_ErrorLine ==
    (pc = "parsed" /\ Failed(1))
        => /\ LastError(P1).line >= 1
           /\ \A i \in Occurrences(P1.text, LastError(P1).text) :
                 Cardinality(Occurrences(P1.text, LastError(P1).text)) = 1
                     => LastError(P1).line = LineOf(P1.text, i)

\* no member of a Sequence of the tree is itself a Sequence
RECURSIVE NoNestedSequence(_)
NoNestedSequence(v) ==
    IF v.kind = "str" THEN TRUE
    ELSE IF v.kind = "arr"
    THEN \A i \in 1..Len(v.val) :
            v.val[i].kind # "arr" /\ NoNestedSequence(v.val[i])
    ELSE \A i \in 1..Len(v.val) : NoNestedSequence(v.val[i].v)

\* the name a tag gives its element under the options
RefName(name, opts) == IF opts.lowerCase THEN toLowerCase(name) ELSE name

\* the child elements of the first element of a document
RefChildren(text) ==
    LET tags == RefTags(text, 1)
    IN  IF tags[1].type = "empty" THEN <<>>
        ELSE RefSiblings(tags, 2, RefClose(tags, 1, 0) - 1)

\* the value the parser gives an element that stands alone as a document
ElementValue(text, opts) ==
    Construct(text, [opts EXCEPT !.preserveDocumentNode = FALSE]).p.tree

\* value is the value of the first element of the document, and in it
\* and below it every run of n >= 2 same-name children is one Sequence
\* of the n values in document order
RECURSIVE SequencesInOrder(_, _, _)
SequencesInOrder(text, opts, value) ==
    LET tags == RefTags(text, 1)
        kids == RefChildren(text)
        nameOf(k) == RefName(tags[kids[k].from].name, opts)
        same(N) == {k \in 1..Len(kids) : nameOf(k) = N}
        nth(N, j) == CHOOSE k \in same(N) :
                         Cardinality({m \in same(N) : m < k}) = j - 1
        kidText(k) == ElementText(text, tags, kids[k])
    IN  /\ \A k \in 1..Len(kids) :
              Cardinality(same(nameOf(k))) >= 2
                  => /\ value.kind = "hash"
                     /\ HasKey(value.val, nameOf(k))
                     /\ Get(value.val, nameOf(k)) =
                           Arr([j \in 1..Cardinality(same(nameOf(k))) |->
                                   ElementValue(kidText(nth(nameOf(k), j)), opts)])
        /\ \A k \in 1..Len(kids) :
              SequencesInOrder(kidText(k), opts, ElementValue(kidText(k), opts))

\* the value of the document element in the tree a parse returned
RootValue(p) ==
    IF p.opts.preserveDocumentNode THEN Get(p.tree.val, p.documentNodeName)
    ELSE p.tree

C1_RoundTrip ==
    (/\ pc = "done" /\ subject.by = "stringify"
     /\ subject.opts = DefaultCompose
     /\ P1.opts = AttribOptions /\ WellFormed(P1.text))
        => /\ results[2].kind = "tree"
           /\ results[2].tree \in {subject.before, subject.after}

\* C6: after stringify or compose returns the tree equals its value before
\* the call, and composing it once more gives the same text.
C6_InputUnchanged ==
    pc = "composed"
        => /\ subject.after = subject.before
           /\ subject.by = "stringify"
                 => compose_xml(subject.after, subject.name, 0, subject.opts).xml = xml

\* the elements a tree holds: one for each scalar and each Element, the
\* attribute and text slots apart
RECURSIVE ElementCount(_, _)
ElementCount(v, named) ==
    LET sum[i \in 0..Len(v.val)] ==
            IF i = 0 THEN 0
            ELSE sum[i - 1] +
                 IF v.kind = "arr" THEN ElementCount(v.val[i], named)
                 ELSE IF v.val[i].k \in {AttribsKey, DataKey} THEN 0
                 ELSE ElementCount(v.val[i].v, TRUE)
    IN  IF v.kind = "str" THEN 1
        ELSE IF v.kind = "arr" THEN sum[Len(v.val)]
        ELSE sum[Len(v.val)] + IF named THEN 1 ELSE 0

\* the opening and self-closing tags of a text
ElementTags(text) ==
    {i \in 1..Len(RefTags(text, 1)) :
        /\ RefTags(text, 1)[i].type \in {"open", "empty"}
        /\ RefTags(text, 1)[i].name # <<>>}

\* C10: the composer drops no child: the text it gives for a tree holds
\* one opening or self-closing tag for each element of the tree, also
\* for the children of an element that has text as well.
C10_NoChildDropped ==
    (pc = "composed" /\ subject.by = "stringify" /\ CountIn(P1.text, {"&"}) = 0)
        => Cardinality(ElementTags(xml)) =
               ElementCount(subject.before, subject.name # Null)

\* C7: two parse invocations, each on its own parser object, share no
\* mutable state, the scan cursor included: however their scan steps take
\* turns, each ends with the tree or the error it gives when it runs alone.
C7_Isolated ==
    \A i \in PIDs :
        results[i].kind # "none"
            => results[i] = Outcome(Construct(parsers[i].text, parsers[i].opts).p)

\* C8: decode_entities undoes encode_entities and encode_attrib_entities
\* on every string over ordinary characters and & < > " '.
C8_CodecRoundTrip ==
    codec.stage = "decoded" => codec.decoded = codec.input

\* the text of an entity has been encoded and decoded back to itself
C8_Witness ==
    /\ codec.stage = "decoded"
    /\ codec.input = <<"&", "l", "t", ";">>
    /\ codec.encoded = <<"&", "a", "m", "p", ";", "l", "t", ";">>
    /\ codec.decoded = codec.input

=============================================================================
